---- MODULE Spec2Model ----
(***************************************************************************)
(* The multi-phase agent of backend/services/agent_service.py together     *)
(* with the session store of backend/services/redis_service.py.            *)
(*                                                                         *)
(* A turn (AgentService.process_message) is a sequence of steps, one per   *)
(* stretch of code between two awaits: session retrieval, fact extraction  *)
(* and merge, classification up to the clarification gate, the launch of   *)
(* the branch tasks, the completion of each task, and aggregation with     *)
(* the session update.  Sessions are Python dicts: the in-memory map holds *)
(* references to them (heap), the Redis store holds serialized copies.     *)
(***************************************************************************)
EXTENDS Integers, Sequences, FiniteSets, TLC

\* ------------------------------------------------------------------------
\* Bounds of the model
\* ------------------------------------------------------------------------
MaxOps == 1            \* turns and session creations in a behaviour
MaxHistoryOps == 6     \* the same, under the "history" profile
MaxFactOps == 2        \* the same, under the "facts" profile
MaxConcurrentOps == 2  \* the same, under the "concurrent" profile
MaxLedgerOps == 2      \* the same, under the "ledger" profile
MaxPairOps == 6        \* the same, under the "pairs" profile
MaxModeOps == 2        \* the same, under the "modes" profile
MaxOwnerOps == 2       \* the same, under the "owners" profile
MaxWords == 3          \* words of a text message given to the trigger detection
MaxGroups == 2         \* categories or days of a document payload
MaxMembers == 2        \* items of a category, activities of a day

\* ------------------------------------------------------------------------
\* Program constants
\* ------------------------------------------------------------------------
HistoryLimit == 10     \* chat_history[-10:]
DestinationsCap == 5   \* current_dests[:5]
InterestsCap == 10     \* current_interests[:10]
LedgerCap == 3         \* created_items[item_type][-3:]
SuggestionsCap == 2    \* suggestions[:2]

\* ------------------------------------------------------------------------
\* Values
\* ------------------------------------------------------------------------
Null == "null"                         \* Python None where the other values are strings
SessionIds == {"s1"}
Users == {"alice", "bob"}
Slots == {1, 2}                        \* process_message invocations in flight
ObjIds == 1..(Cardinality(SessionIds) + Cardinality(Slots))
NoObj == 0                             \* no dict: None / a missing key
Free == [free |-> TRUE]                \* an unused heap cell
NoRecord == [absent |-> TRUE]          \* no value under the Redis key

DocumentKinds == {"checklist", "budget", "itinerary"}
BranchKinds == DocumentKinds \cup {"text"}

\* ------------------------------------------------------------------------
\* Sequence helpers (Python list operations)
\* ------------------------------------------------------------------------
Range(s) == {s[i] : i \in 1..Len(s)}

\* s[:n]
Prefix(s, n) == IF Len(s) <= n THEN s ELSE SubSeq(s, 1, n)

\* s[-n:]
Suffix(s, n) == IF Len(s) <= n THEN s ELSE SubSeq(s, Len(s) - n + 1, Len(s))

\* ------------------------------------------------------------------------
\* create_session: the session dict
\* ------------------------------------------------------------------------
NewSessionData(user_id, session_id, now) ==
    [ user_id       |-> user_id,
      session_id    |-> session_id,
      created_at    |-> now,
      last_activity |-> now,
      chat_history  |-> <<>>,
      persistent_context |->
        [ destinations_mentioned |-> <<>>,
          interests        |-> <<>>,
          budget_level     |-> Null,
          travel_style     |-> Null,
          current_location |-> Null,
          created_items    |-> [ checklists  |-> <<>>,
                                 itineraries |-> <<>>,
                                 budgets     |-> <<>> ] ] ]

\* ------------------------------------------------------------------------
\* User messages.  A message is its text as a sequence of words, and, when
\* the text starts with an opening brace, what json.loads makes of it.
\* ------------------------------------------------------------------------
Absent == [t |-> "absent", v |-> <<>>]          \* key not in the object
JNull == [t |-> "null", v |-> <<>>]             \* JSON null
JStr(k) == [t |-> "str", v |-> <<k>>]           \* a JSON string
JList(ks) == [t |-> "list", v |-> ks]           \* a JSON array of strings

TextMessage(ws) ==
    [json |-> "no", app_action |-> Absent, app_actions |-> Absent, words |-> ws]
JsonMessage(a, as, ws) ==
    [json |-> "object", app_action |-> a, app_actions |-> as, words |-> ws]
BrokenJsonMessage(ws) ==
    [json |-> "invalid", app_action |-> Absent, app_actions |-> Absent, words |-> ws]
NoMessage == TextMessage(<<>>)

\* str.lower() on the words the model uses; every other word is lower-case
Lower(w) ==
    CASE w = "Create" -> "create"
      [] w = "CHECKLIST" -> "checklist"
      [] w = "Checklist" -> "checklist"
      [] w = "BUDGET" -> "budget"
      [] w = "Budget" -> "budget"
      [] w = "ITINERARY" -> "itinerary"
      [] w = "Itinerary" -> "itinerary"
      [] w = "TEXT" -> "text"
      [] w = "Text" -> "text"
      [] w = "Go" -> "go"
      [] OTHER -> w

LowerAll(ws) == [i \in 1..Len(ws) |-> Lower(ws[i])]

\* the triggers list of _detect_execution_trigger, in its order
Triggers ==
    << <<"create", "the", "checklist">>, <<"generate", "the", "checklist">>,
       <<"make", "the", "checklist">>, <<"build", "the", "checklist">>,
       <<"create", "my", "checklist">>, <<"generate", "my", "checklist">>,
       <<"make", "my", "checklist">>, <<"create", "checklist">>,
       <<"create", "the", "itinerary">>, <<"generate", "the", "itinerary">>,
       <<"make", "the", "itinerary">>, <<"build", "the", "itinerary">>,
       <<"create", "my", "itinerary">>, <<"generate", "my", "itinerary">>,
       <<"make", "my", "itinerary">>, <<"create", "itinerary">>,
       <<"plan", "my", "day">>, <<"plan", "my", "days">>,
       <<"create", "the", "budget">>, <<"generate", "the", "budget">>,
       <<"make", "the", "budget">>, <<"build", "the", "budget">>,
       <<"create", "my", "budget">>, <<"generate", "my", "budget">>,
       <<"make", "my", "budget">>, <<"create", "budget">>,
       <<"show", "me", "the", "budget">>, <<"breakdown", "the", "budget">>,
       <<"create", "it", "now">>, <<"generate", "it", "now">>,
       <<"make", "it", "now">>, <<"show", "me">>, <<"let's", "do", "it">>,
       <<"go", "ahead">>, <<"proceed">>, <<"execute">> >>

\* trigger in message_lower, on whole words
Contains(ws, phrase) ==
    \E i \in 1..Len(ws) :
        /\ i + Len(phrase) - 1 <= Len(ws)
        /\ SubSeq(ws, i, i + Len(phrase) - 1) = phrase

\* keyword in trigger: the words of the list that hold the keyword
HasKeyword(phrase, kw) ==
    \E i \in 1..Len(phrase) :
        phrase[i] \in (CASE kw = "day" -> {"day", "days"} [] OTHER -> {kw})

TriggerActions(phrase) ==
    IF HasKeyword(phrase, "checklist") THEN JList(<<"checklist">>)
    ELSE IF HasKeyword(phrase, "itinerary") \/ HasKeyword(phrase, "day")
         THEN JList(<<"itinerary">>)
    ELSE IF HasKeyword(phrase, "budget") THEN JList(<<"budget">>)
    ELSE JNull

Truthy(j) == (j.t = "str" /\ j.v # <<"">>) \/ (j.t = "list" /\ j.v # <<>>)

\* _detect_execution_trigger
DetectExecutionTrigger(message) ==
    LET lower == LowerAll(message.words)
        hits == {i \in 1..Len(Triggers) : Contains(lower, Triggers[i])}
        first == CHOOSE i \in hits : \A j \in hits : i <= j
        got == IF Truthy(message.app_action) THEN message.app_action
               ELSE IF message.app_actions.t = "absent" THEN JNull
               ELSE message.app_actions
    IN  IF /\ message.json = "object"
           /\ (message.app_action.t # "absent" \/ message.app_actions.t # "absent")
        THEN [execute |-> TRUE,
              actions |-> IF got.t = "str" THEN JList(got.v) ELSE got,
              format  |-> "json"]
        ELSE IF hits # {}
        THEN [execute |-> TRUE, actions |-> TriggerActions(Triggers[first]),
              format |-> "text"]
        ELSE [execute |-> FALSE, actions |-> JNull, format |-> "text"]


\* ------------------------------------------------------------------------
\* Text of a completion, as a sequence of tokens: the JSON punctuation,
\* the quote, a number, words, blanks and the markdown fence.
\* ------------------------------------------------------------------------
LB == "{"
RB == "}"
LK == "["
RK == "]"
QT == "\""
CM == ","
CL == ":"
SP == " "
FENCE == "<fence>"                \* the three backticks of a markdown fence
JSONTAG == "json"

Count(s, c) == Cardinality({i \in 1..Len(s) : s[i] = c})

\* str.find(c): first index of c, 0 when there is none (Python: -1)
Find(s, c) ==
    IF \E i \in 1..Len(s) : s[i] = c
    THEN CHOOSE i \in 1..Len(s) : s[i] = c /\ \A j \in 1..(i - 1) : s[j] # c
    ELSE 0

\* str.rfind(c): last index of c, 0 when there is none
RFind(s, c) ==
    IF \E i \in 1..Len(s) : s[i] = c
    THEN CHOOSE i \in 1..Len(s) : s[i] = c /\ \A j \in (i + 1)..Len(s) : s[j] # c
    ELSE 0

\* str.strip() and str.rstrip(), blanks being the only whitespace
RECURSIVE RStrip(_)
RStrip(s) ==
    IF s # <<>> /\ s[Len(s)] = SP THEN RStrip(SubSeq(s, 1, Len(s) - 1)) ELSE s

RECURSIVE LStrip(_)
LStrip(s) == IF s # <<>> /\ Head(s) = SP THEN LStrip(Tail(s)) ELSE s

Strip(s) == LStrip(RStrip(s))

\* the text without its blanks: JSON ignores them between tokens
RECURSIVE NoBlanks(_)
NoBlanks(s) ==
    IF s = <<>> THEN <<>>
    ELSE (IF Head(s) = SP THEN <<>> ELSE <<Head(s)>>) \o NoBlanks(Tail(s))

NumberTokens == {"1", "2", "1500"}

\* json.loads on tokens: the index after the value that starts at i, or 0.
\* value  := number | string | object | array
\* string := QT word* QT          object := LB [pair (CM pair)*] RB
\* pair   := string CL value      array  := LK [value (CM value)*] RK
RECURSIVE ParseString(_, _)
ParseString(s, i) ==
    IF i > Len(s) THEN 0
    ELSE IF s[i] = QT THEN i + 1
    ELSE ParseString(s, i + 1)

RECURSIVE ParseValue(_, _)
RECURSIVE ParseMembers(_, _, _)
\* the members of an object (isObject) or array after its opening bracket,
\* the first one starting at i
ParseMembers(s, i, isObject) ==
    LET afterKey == IF i <= Len(s) /\ s[i] = QT THEN ParseString(s, i + 1) ELSE 0
        valueAt == IF ~isObject THEN i
                   ELSE IF afterKey # 0 /\ afterKey <= Len(s) /\ s[afterKey] = CL
                        THEN afterKey + 1 ELSE 0
        after == IF valueAt = 0 THEN 0 ELSE ParseValue(s, valueAt)
    IN  IF after = 0 \/ after > Len(s) THEN 0
        ELSE IF s[after] = (IF isObject THEN RB ELSE RK) THEN after + 1
        ELSE IF s[after] = CM THEN ParseMembers(s, after + 1, isObject)
        ELSE 0

ParseValue(s, i) ==
    IF i > Len(s) THEN 0
    ELSE IF s[i] = QT THEN ParseString(s, i + 1)
    ELSE IF s[i] \in {LB, LK}
         THEN IF i + 1 <= Len(s) /\ s[i + 1] = (IF s[i] = LB THEN RB ELSE RK)
              THEN i + 2
              ELSE ParseMembers(s, i + 1, s[i] = LB)
    ELSE IF s[i] \in NumberTokens THEN i + 1
    ELSE 0

\* json.loads(text) returns (TRUE) or raises JSONDecodeError (FALSE)
JsonLoads(text) ==
    LET s == NoBlanks(text)
    IN  s # <<>> /\ ParseValue(s, 1) = Len(s) + 1


\* ------------------------------------------------------------------------
\* Completions: what self.llm.ainvoke gives a caller
\* ------------------------------------------------------------------------
Raised == [raised |-> TRUE, text |-> <<>>]       \* timeout, quota, any exception
Completion(text) == [raised |-> FALSE, text |-> text]

Repeat(c, n) == [i \in 1..n |-> c]               \* c * n, empty when n <= 0

EndsWith(s, c) == s # <<>> /\ s[Len(s)] = c

\* '```json' in text, and the index of its first occurrence
FenceJsonAt(s) == {i \in 1..(Len(s) - 1) : s[i] = FENCE /\ s[i + 1] = JSONTAG}

UpToFence(s) == IF Find(s, FENCE) = 0 THEN s ELSE SubSeq(s, 1, Find(s, FENCE) - 1)

\* the "remove markdown code blocks" lines of the branch executors
StripMarkdown(text) ==
    IF FenceJsonAt(text) # {}
    THEN LET i == CHOOSE i \in FenceJsonAt(text) : \A j \in FenceJsonAt(text) : i <= j
         IN  Strip(UpToFence(SubSeq(text, i + 2, Len(text))))
    ELSE IF Find(text, FENCE) # 0
    THEN Strip(UpToFence(SubSeq(text, Find(text, FENCE) + 1, Len(text))))
    ELSE text

Failure(error) == [success |-> FALSE, type |-> "none", data |-> <<>>, error |-> error]
Success(kind, data) == [success |-> TRUE, type |-> kind, data |-> data, error |-> "none"]

\* the "try to fix common JSON issues" block: the text json.loads is
\* given the second time, or <<>> when the block gives up before that
FixedJson(json_str) ==
    LET open_braces == Count(json_str, LB)
        close_braces == Count(json_str, RB)
        stripped == RStrip(json_str)
        closed == IF stripped[Len(stripped)] \notin {QT, CM, RB, RK}
                  THEN stripped \o <<QT>> ELSE json_str
        open_arrays == Count(closed, LK) - Count(closed, RK)
        open_objects == open_braces - close_braces
    IN  IF ~EndsWith(stripped, RB) /\ open_braces > close_braces /\ stripped # <<>>
        THEN closed \o Repeat(RK, open_arrays) \o Repeat(RB, open_objects)
        ELSE <<>>

\* the part of a document branch after the completion call:
\* _execute_checklist_branch, _execute_budget_branch, _execute_itinerary_branch
ExtractAndRepair(kind, response_text) ==
    LET text == StripMarkdown(response_text)
        json_start == Find(text, LB)
        json_end == RFind(text, RB)
        json_str == SubSeq(text, json_start, json_end)
        fixed == FixedJson(json_str)
    IN  IF json_start # 0 /\ json_end > json_start
        THEN IF JsonLoads(json_str) THEN Success(kind, NoBlanks(json_str))
             ELSE IF fixed # <<>> /\ JsonLoads(fixed) THEN Success(kind, NoBlanks(fixed))
             ELSE Failure("JSON parsing error")
        ELSE Failure("no JSON found")

DocumentBranch(kind, completion) ==
    IF completion.raised THEN Failure("exception")
    ELSE IF Strip(completion.text) = <<>> THEN Failure("Empty response from LLM")
    ELSE ExtractAndRepair(kind, completion.text)

\* _execute_text_branch
TextBranch(completion) ==
    IF completion.raised THEN Failure("exception")
    ELSE Success("text", completion.text)

ExecuteBranch(kind, completion) ==
    IF kind = "text" THEN TextBranch(completion) ELSE DocumentBranch(kind, completion)


\* ------------------------------------------------------------------------
\* Phase 1: _classify_intent_and_decide_branches
\* ------------------------------------------------------------------------
NoClarification == [branch |-> Null, question |-> Null]      \* clarification=None

\* BranchDecision; a confidence is the text of its float; reasoning is
\* carried nowhere and left out
Decision(branch, enabled, confidence, needs_clarification, clarification, priority) ==
    [ branch |-> branch, enabled |-> enabled, confidence |-> confidence,
      needs_clarification |-> needs_clarification,
      clarification |-> clarification, priority |-> priority ]

\* a fallback that passes on the first three kinds as enabled
FallbackEverything ==
    << Decision("checklist", TRUE, "0.0", FALSE, NoClarification, 1),
       Decision("budget", TRUE, "0.0", FALSE, NoClarification, 2),
       Decision("itinerary", TRUE, "0.0", FALSE, NoClarification, 3),
       Decision("text", TRUE, "1.0", FALSE, NoClarification, 4) >>

\* the except branch: "Fallback: enable TEXT branch only"
FallbackDecisions ==
    << Decision("checklist", FALSE, "0.0", FALSE, NoClarification, 1),
       Decision("budget", FALSE, "0.0", FALSE, NoClarification, 2),
       Decision("itinerary", FALSE, "0.0", FALSE, NoClarification, 3),
       Decision("text", TRUE, "1.0", FALSE, NoClarification, 4) >>

\* One entry of the "branches" array the model wrote.  clarification is
\* "null", "string" (not a dict), "object" or "badtype" (a dict whose type
\* is none of text, multiple_choice, yes_no); complete is FALSE when the
\* entry lacks branch, enabled or confidence.
BranchData(branch, enabled, needs_clarification, clarification, priority, complete) ==
    [ branch |-> branch, enabled |-> enabled, confidence |-> "0.9",
      needs_clarification |-> needs_clarification,
      clarification |-> clarification, priority |-> priority,
      complete |-> complete ]

\* the body of the for loop over data.get('branches', [])
DecisionOf(branch_data) ==
    Decision(Lower(branch_data.branch), branch_data.enabled,
             branch_data.confidence,
             branch_data.needs_clarification,
             IF /\ branch_data.needs_clarification
                /\ branch_data.clarification = "object"
             THEN [branch |-> Lower(branch_data.branch),
                   question |-> branch_data.branch]
             ELSE NoClarification,
             branch_data.priority)

\* constructing the ClarificationRequest or the BranchDecision raises
EntryRaises(branch_data) ==
    \/ ~branch_data.complete
    \/ branch_data.needs_clarification /\ branch_data.clarification = "badtype"

\* answer: [raised, parsed, branches]: the call raised, or the text held a
\* JSON object (parsed) with these branches
\* the except branch is taken
ClassifierFellBack(answer) ==
    \/ answer.raised
    \/ ~answer.parsed
    \/ \E i \in 1..Len(answer.branches) : EntryRaises(answer.branches[i])

ClassifyIntentAndDecideBranches(answer) ==
    IF ClassifierFellBack(answer)
    THEN FallbackDecisions
    ELSE [i \in 1..Len(answer.branches) |-> DecisionOf(answer.branches[i])]

\* ------------------------------------------------------------------------
\* Phase 2: requirement checking (process_message, "PHASE 2")
\* ------------------------------------------------------------------------
AppActionNames == {"CHECKLIST", "ITINERARY", "BUDGET"}

\* app_action_branches, as indices into branches
AppActionBranches(branches) ==
    {i \in 1..Len(branches) :
        branches[i].enabled /\ branches[i].branch \in AppActionNames}

RECURSIVE Ascending(_)
Ascending(S) ==
    IF S = {} THEN <<>>
    ELSE LET m == CHOOSE x \in S : \A y \in S : x <= y
         IN  <<m>> \o Ascending(S \ {m})

AnyEnabled(branches) == \E j \in 1..Len(branches) : branches[j].enabled

\* The loop over app_action_branches.  extraction[k] is what
\* _check_requirements_for_action returns for kind k this turn.  raised:
\* the follow-up BranchDecision(branch="TEXT", ...) is built without the
\* required confidence field, which pydantic rejects.
RECURSIVE CheckRequirements(_, _, _, _, _)
CheckRequirements(branches, todo, trigger, extraction, status) ==
    IF todo = <<>>
    THEN [raised |-> FALSE, branches |-> branches, requirements_status |-> status]
    ELSE LET i == Head(todo)
             action_key == Lower(branches[i].branch)
             is_ready == extraction[action_key].ready
             action_requested ==
                 \/ trigger.actions.t = "null"
                 \/ action_key \in Range(trigger.actions.v)
             checked == Append(status, [kind |-> action_key,
                                        result |-> extraction[action_key]])
             disabled == [branches EXCEPT ![i].enabled = FALSE]
         IN  IF ~trigger.execute \/ ~is_ready \/ ~action_requested
             THEN IF ~AnyEnabled(disabled)
                  THEN [raised |-> TRUE, branches |-> disabled,
                        requirements_status |-> checked]
                  ELSE CheckRequirements(disabled, Tail(todo), trigger,
                                         extraction, checked)
             ELSE CheckRequirements(branches, Tail(todo), trigger,
                                    extraction, checked)

\* ------------------------------------------------------------------------
\* Phase 3: _collect_clarifications
\* ------------------------------------------------------------------------
RECURSIVE CollectClarifications(_)
CollectClarifications(branches) ==
    IF branches = <<>> THEN <<>>
    ELSE (IF /\ Head(branches).needs_clarification
             /\ Head(branches).clarification # NoClarification
          THEN <<Head(branches).clarification>> ELSE <<>>)
         \o CollectClarifications(Tail(branches))

\* ------------------------------------------------------------------------
\* Phase 4: _execute_branches, up to asyncio.gather
\* ------------------------------------------------------------------------
\* sorted(..., key=lambda x: x.priority): stable
RECURSIVE SortedByPriority(_)
SortedByPriority(bs) ==
    IF bs = <<>> THEN <<>>
    ELSE LET rest == SortedByPriority(SubSeq(bs, 1, Len(bs) - 1))
             b == bs[Len(bs)]
             k == Cardinality({i \in 1..Len(rest) : rest[i].priority <= b.priority})
         IN  SubSeq(rest, 1, k) \o <<b>> \o SubSeq(rest, k + 1, Len(rest))

RECURSIVE EnabledOnly(_)
EnabledOnly(bs) ==
    IF bs = <<>> THEN <<>>
    ELSE (IF Head(bs).enabled THEN <<Head(bs)>> ELSE <<>>) \o EnabledOnly(Tail(bs))

RECURSIVE KnownKinds(_)
KnownKinds(bs) ==
    IF bs = <<>> THEN <<>>
    ELSE (IF Head(bs).branch \in BranchKinds THEN <<Head(bs).branch>> ELSE <<>>)
         \o KnownKinds(Tail(bs))

\* an executor that keeps the text branch for turns without a document
BranchTasksTextAlone(branches) ==
    LET tasks == KnownKinds(SortedByPriority(EnabledOnly(branches)))
        IsDocument(kind) == kind \in DocumentKinds
        documents == SelectSeq(tasks, IsDocument)
    IN  IF documents = <<>> THEN <<"text">> ELSE documents

\* an executor without the "fall back to text" step
BranchTasksNoFallback(branches) ==
    KnownKinds(SortedByPriority(EnabledOnly(branches)))

\* the kinds of the tasks handed to asyncio.gather, in order
BranchTasks(branches) ==
    LET tasks == KnownKinds(SortedByPriority(EnabledOnly(branches)))
    IN  IF tasks = <<>> THEN <<"text">> ELSE tasks

\* ------------------------------------------------------------------------
\* Phase 5: _aggregate_results
\* ------------------------------------------------------------------------
ChecklistAck == <<"I've created a checklist for you. Check it out below!">>
BudgetAck == <<"I've prepared a budget plan for your trip. Take a look!">>
ItineraryAck == <<"Here's your customized day-by-day itinerary!">>
FallbackMessage ==
    <<"I'm here to help with your travel planning. Let me know if you need anything!">>

RECURSIVE AppActions(_)
AppActions(results) ==
    IF results = <<>> THEN <<>>
    ELSE (IF Head(results).success /\ Head(results).type \in DocumentKinds
          THEN <<[type |-> Head(results).type, data |-> Head(results).data]>>
          ELSE <<>>) \o AppActions(Tail(results))

RECURSIVE TextResponses(_)
TextResponses(results) ==
    IF results = <<>> THEN <<>>
    ELSE (IF Head(results).success /\ Head(results).type = "text"
          THEN <<Head(results).data>> ELSE <<>>) \o TextResponses(Tail(results))

ActionTypes(app_actions) == {app_actions[i].type : i \in 1..Len(app_actions)}

\* an aggregation that gives up when any branch failed
AggregateResultsAllOrNothing(branch_results) ==
    LET all == \A i \in 1..Len(branch_results) : branch_results[i].success
        app_actions == IF all THEN AppActions(branch_results) ELSE <<>>
        text_responses == IF all THEN TextResponses(branch_results) ELSE <<>>
    IN  [ message |-> IF text_responses # <<>> THEN text_responses
                      ELSE <<FallbackMessage>>,
          app_actions |-> app_actions,
          suggestions |-> <<>> ]

\* an aggregation without the fallback message
AggregateResultsNoFallback(branch_results) ==
    LET app_actions == AppActions(branch_results)
        text_responses == TextResponses(branch_results)
        action_types == ActionTypes(app_actions)
        message_parts ==
            text_responses
            \o (IF "checklist" \in action_types THEN <<ChecklistAck>> ELSE <<>>)
            \o (IF "budget" \in action_types THEN <<BudgetAck>> ELSE <<>>)
            \o (IF "itinerary" \in action_types THEN <<ItineraryAck>> ELSE <<>>)
        suggestions ==
            IF app_actions # <<>> /\ text_responses # <<>>
            THEN <<"Would you like to customize anything?",
                   "Need more details about your trip?">>
            ELSE IF "checklist" \in action_types
            THEN <<"Would you like to modify the checklist?",
                   "Need help with anything else?">>
            ELSE IF "budget" \in action_types
            THEN <<"Want to adjust the budget categories?",
                   "Need tips on saving money?">>
            ELSE IF "itinerary" \in action_types
            THEN <<"Would you like to adjust the schedule?",
                   "Need more activity suggestions?">>
            ELSE IF text_responses # <<>>
            THEN <<"Would you like more details?", "Any other questions?">>
            ELSE <<>>
    IN  [ message |-> message_parts,
          app_actions |-> app_actions,
          suggestions |-> Prefix(suggestions, SuggestionsCap) ]

\* an aggregation that puts the acknowledgments before the text
AggregateResultsAcksFirst(branch_results) ==
    LET app_actions == AppActions(branch_results)
        text_responses == TextResponses(branch_results)
        action_types == ActionTypes(app_actions)
        message_parts ==
            (IF "checklist" \in action_types THEN <<ChecklistAck>> ELSE <<>>)
            \o (IF "budget" \in action_types THEN <<BudgetAck>> ELSE <<>>)
            \o (IF "itinerary" \in action_types THEN <<ItineraryAck>> ELSE <<>>)
            \o text_responses
        suggestions ==
            IF app_actions # <<>> /\ text_responses # <<>>
            THEN <<"Would you like to customize anything?",
                   "Need more details about your trip?">>
            ELSE IF "checklist" \in action_types
            THEN <<"Would you like to modify the checklist?",
                   "Need help with anything else?">>
            ELSE IF "budget" \in action_types
            THEN <<"Want to adjust the budget categories?",
                   "Need tips on saving money?">>
            ELSE IF "itinerary" \in action_types
            THEN <<"Would you like to adjust the schedule?",
                   "Need more activity suggestions?">>
            ELSE IF text_responses # <<>>
            THEN <<"Would you like more details?", "Any other questions?">>
            ELSE <<>>
    IN  [ message |-> IF message_parts # <<>> THEN message_parts
                      ELSE <<FallbackMessage>>,
          app_actions |-> app_actions,
          suggestions |-> Prefix(suggestions, SuggestionsCap) ]

\* the message is the list of its parts: '\n\n'.join(message_parts)
AggregateResults(branch_results) ==
    LET app_actions == AppActions(branch_results)
        text_responses == TextResponses(branch_results)
        action_types == ActionTypes(app_actions)
        message_parts ==
            text_responses
            \o (IF "checklist" \in action_types THEN <<ChecklistAck>> ELSE <<>>)
            \o (IF "budget" \in action_types THEN <<BudgetAck>> ELSE <<>>)
            \o (IF "itinerary" \in action_types THEN <<ItineraryAck>> ELSE <<>>)
        suggestions ==
            IF app_actions # <<>> /\ text_responses # <<>>
            THEN <<"Would you like to customize anything?",
                   "Need more details about your trip?">>
            ELSE IF "checklist" \in action_types
            THEN <<"Would you like to modify the checklist?",
                   "Need help with anything else?">>
            ELSE IF "budget" \in action_types
            THEN <<"Want to adjust the budget categories?",
                   "Need tips on saving money?">>
            ELSE IF "itinerary" \in action_types
            THEN <<"Would you like to adjust the schedule?",
                   "Need more activity suggestions?">>
            ELSE IF text_responses # <<>>
            THEN <<"Would you like more details?", "Any other questions?">>
            ELSE <<>>
    IN  [ message |-> IF message_parts # <<>> THEN message_parts
                      ELSE <<FallbackMessage>>,
          app_actions |-> app_actions,
          suggestions |-> Prefix(suggestions, SuggestionsCap) ]


\* ------------------------------------------------------------------------
\* Session context: the fact merge and the session update of process_message
\* ------------------------------------------------------------------------
\* _extract_context_from_message.  answer: [raised, parsed, fields]: the
\* call raised, or the text held a JSON object (parsed) with these fields,
\* each a JSON value (Absent, JNull, JStr, JList)
EmptyExtraction ==
    [destinations |-> Absent, interests |-> Absent,
     budget_level |-> Absent, travel_style |-> Absent]

ExtractContextFromMessage(answer) ==
    IF answer.raised \/ ~answer.parsed THEN EmptyExtraction ELSE answer.fields

\* for x in extracted: if x and x not in current: current.append(x)
RECURSIVE AppendNew(_, _)
AppendNew(current, extracted) ==
    IF extracted = <<>> THEN current
    ELSE AppendNew(IF Head(extracted) # "" /\ Head(extracted) \notin Range(current)
                   THEN Append(current, Head(extracted)) ELSE current,
                   Tail(extracted))

\* if extracted.get(key): ...; current[:cap]
MergeList(current, extracted, cap) ==
    IF Truthy(extracted) THEN Prefix(AppendNew(current, extracted.v), cap)
    ELSE current

\* an assignment without the truthiness test
MergeScalarUnguarded(current, extracted) ==
    IF extracted.t = "str" THEN extracted.v[1] ELSE Null

\* if extracted.get(key): persistent_ctx[key] = extracted[key]
MergeScalar(current, extracted) ==
    IF Truthy(extracted) THEN extracted.v[1] ELSE current

\* "Update persistent context": context_location is
\* context['current_location'], Absent when there is no context or no key
MergeContext(persistent_ctx, extracted, context_location) ==
    [persistent_ctx EXCEPT
        !.destinations_mentioned =
            MergeList(@, extracted.destinations, DestinationsCap),
        !.interests = MergeList(@, extracted.interests, InterestsCap),
        !.budget_level = MergeScalar(@, extracted.budget_level),
        !.travel_style = MergeScalar(@, extracted.travel_style),
        !.current_location = MergeScalar(@, context_location)]

\* action_data.get(key, default) on a parsed object: the token after the
\* colon of the last top-level pair named key (for a string, its word)
TopLevel(data, i) ==
    Cardinality({j \in 1..(i - 1) : data[j] \in {LB, LK}})
    - Cardinality({j \in 1..(i - 1) : data[j] \in {RB, RK}}) = 1

KeyAt(data, key) ==
    {i \in 1..(Len(data) - 4) :
        /\ data[i] = QT /\ data[i + 1] = key /\ data[i + 2] = QT /\ data[i + 3] = CL
        /\ TopLevel(data, i)}

GetField(data, key, default) ==
    IF KeyAt(data, key) = {} THEN default
    ELSE LET i == CHOOSE i \in KeyAt(data, key) : \A j \in KeyAt(data, key) : j <= i
         IN  IF data[i + 4] = QT THEN data[i + 5] ELSE data[i + 4]

LedgerKey(type) ==
    CASE type = "checklist" -> "checklists"
      [] type = "itinerary" -> "itineraries"
      [] type = "budget" -> "budgets"

LedgerEntry(app_action, now) ==
    CASE app_action.type = "checklist" ->
            [title |-> GetField(app_action.data, "title", "Untitled"),
             created_at |-> now]
      [] app_action.type = "itinerary" ->
            [title |-> GetField(app_action.data, "title", "Untitled"),
             destination |-> GetField(app_action.data, "destination", "Unknown"),
             created_at |-> now]
      [] app_action.type = "budget" ->
            [title |-> GetField(app_action.data, "title", "Untitled"),
             total |-> GetField(app_action.data, "totalBudget", "0"),
             created_at |-> now]

\* "Store created items in persistent context"
RECURSIVE StoreCreatedItems(_, _, _)
StoreCreatedItems(created_items, app_actions, now) ==
    IF app_actions = <<>> THEN created_items
    ELSE StoreCreatedItems(
            [created_items EXCEPT ![LedgerKey(Head(app_actions).type)] =
                Append(@, LedgerEntry(Head(app_actions), now))],
            Tail(app_actions), now)

\* a trim that keeps the oldest entries
TrimCreatedItemsKeepOldest(created_items) ==
    [k \in DOMAIN created_items |-> Prefix(created_items[k], LedgerCap)]

\* "Keep only last 3 of each item type"
TrimCreatedItems(created_items) ==
    [k \in DOMAIN created_items |-> Suffix(created_items[k], LedgerCap)]

UserMessage(message, now) ==
    [role |-> "user", content |-> <<message.words>>, timestamp |-> now]
AssistantMessage(final_message, now) ==
    [role |-> "assistant", content |-> final_message, timestamp |-> now]

\* a truncation to an odd number of messages
UpdateHistoryOddCut(chat_history, message, final_message, now) ==
    Suffix(chat_history \o <<UserMessage(message, now),
                             AssistantMessage(final_message, now)>>,
           HistoryLimit - 1)

\* a truncation that keeps the oldest messages
UpdateHistoryKeepOldest(chat_history, message, final_message, now) ==
    Prefix(chat_history \o <<UserMessage(message, now),
                             AssistantMessage(final_message, now)>>,
           HistoryLimit)

\* "Update session history" and "Keep only last 10 messages"
UpdateHistory(chat_history, message, final_message, now) ==
    Suffix(chat_history \o <<UserMessage(message, now),
                             AssistantMessage(final_message, now)>>,
           HistoryLimit)

\* the session dict after the lines between aggregation and "Save session"
UpdateSession(session_data, aggregated, message, now) ==
    [session_data EXCEPT
        !.persistent_context.created_items =
            TrimCreatedItems(StoreCreatedItems(@, aggregated.app_actions, now)),
        !.chat_history = UpdateHistory(@, message, aggregated.message, now)]

\* ------------------------------------------------------------------------
\* ChatResponse
\* ------------------------------------------------------------------------
ApologyMessage ==
    <<"I encountered an error while processing your request. Please try again or rephrase your question.">>
ClarificationMessage == <<"I need a bit more information to help you better:">>

NoResponse ==
    [phase |-> "none", message |-> <<>>, app_actions |-> <<>>,
     clarifications |-> <<>>, suggestions |-> <<>>, error |-> FALSE]

\* the response of the except branch of process_message
ErrorResponse ==
    [phase |-> "error", message |-> <<ApologyMessage>>, app_actions |-> <<>>,
     clarifications |-> <<>>, suggestions |-> <<>>, error |-> TRUE]

\* a gate that hands the clarifications back in the reverse order
ClarificationResponseReversed(branches) ==
    LET cs == CollectClarifications(branches)
    IN  [phase |-> "clarification_needed", message |-> <<ClarificationMessage>>,
         app_actions |-> <<>>,
         clarifications |-> [i \in 1..Len(cs) |-> cs[Len(cs) + 1 - i]],
         suggestions |-> <<>>, error |-> FALSE]

\* the response returned when clarifications are needed
ClarificationResponse(branches) ==
    [phase |-> "clarification_needed", message |-> <<ClarificationMessage>>,
     app_actions |-> <<>>, clarifications |-> CollectClarifications(branches),
     suggestions |-> <<>>, error |-> FALSE]

\* a final response that also asks a question
CompleteResponseAsking(aggregated) ==
    [phase |-> "complete", message |-> aggregated.message,
     app_actions |-> aggregated.app_actions,
     clarifications |-> <<[branch |-> "text", question |-> "text"]>>,
     suggestions |-> aggregated.suggestions, error |-> FALSE]

\* the response at the end of the pipeline
CompleteResponse(aggregated) ==
    [phase |-> "complete", message |-> aggregated.message,
     app_actions |-> aggregated.app_actions, clarifications |-> <<>>,
     suggestions |-> aggregated.suggestions, error |-> FALSE]


VARIABLES
    profile,         \* which inputs the environment offers (fixed by Init)
    redis,           \* self.redis is set (TRUE) or None (FALSE): fixed at start-up
    redisStore,      \* session id -> the record under key session:<id>, or NoRecord
    memorySessions,  \* self._memory_sessions: session id -> dict reference or NoObj
    heap,            \* dict reference -> session dict, or Free
    turn,            \* slot -> the locals of the process_message invocation in it
    clock,           \* datetime.utcnow(), as a logical clock
    appended,        \* history: session id -> every message appended to the
                     \* chat_history of the session since create_session made it
    reply,           \* outcome of the last create_session / delete_session call
    probe            \* argument and result of a function applied on its own

vars == <<profile, redis, redisStore, memorySessions, heap, turn, clock,
          appended, reply, probe>>

\* ------------------------------------------------------------------------
\* What the environment offers: user messages, completions, store faults.
\* The profile picks the part of the input space a specification explores:
\*   "pipeline"  many classifier answers and triggers, few completions
\*   "branches"  many completions per branch task
\*   "history"   long conversations with few different turns
\*   "facts"     many outcomes of the fact extraction
\* ------------------------------------------------------------------------
ValidChecklist ==
    <<LB, QT, "title", QT, CL, QT, "Packing", QT, CM,
      QT, "categories", QT, CL, LK, RK, RB>>
TruncatedChecklist == SubSeq(ValidChecklist, 1, Len(ValidChecklist) - 2)
FencedChecklist == <<FENCE, JSONTAG, SP, LB, QT, "a", QT, CL, "1", RB, SP, FENCE>>
Prose == <<"Sure", SP, "thing">>
UntitledDocument == <<LB, QT, "categories", QT, CL, LK, RK, RB>>

NoTriggerMessage == TextMessage(<<"going", "to", "tokyo">>)
ChecklistTriggerMessage == TextMessage(<<"Create", "the", "checklist", "now">>)
GeneralTriggerMessage == TextMessage(<<"Go", "ahead">>)
BudgetCommandMessage ==
    JsonMessage(JStr("budget"), Absent,
                <<LB, QT, "app_action", QT, CL, QT, "budget", QT, RB>>)

Messages ==
    CASE profile = "pipeline" ->
            {NoTriggerMessage, ChecklistTriggerMessage, BudgetCommandMessage}
      [] profile = "history" -> {GeneralTriggerMessage}
      [] profile = "concurrent" -> {NoTriggerMessage, GeneralTriggerMessage}
      [] OTHER -> {NoTriggerMessage}

TurnUsers == IF profile = "owners" THEN Users ELSE {"alice"}

ContextLocations ==
    IF profile = "facts"
    THEN {JNull, JStr(""), JStr("Osaka"), JStr("Singapore")}
    ELSE {Absent}

Fields(d, i, b, s) ==
    [destinations |-> d, interests |-> i, budget_level |-> b, travel_style |-> s]
Extracted(fields) == [raised |-> FALSE, parsed |-> TRUE, fields |-> fields]
ExtractionRaised == [raised |-> TRUE, parsed |-> FALSE, fields |-> EmptyExtraction]
ExtractionUnparsed == [raised |-> FALSE, parsed |-> FALSE, fields |-> EmptyExtraction]

SomeDestinations ==
    {JList(<<"Paris", "", "Rome", "Tokyo">>), JList(<<"Oslo", "Lima", "Cairo">>)}
SomeInterests ==
    {JList(<<"food", "art", "sea", "hiking", "music", "wine">>),
     JList(<<"golf", "art", "surf", "ski", "zoo", "spa">>)}

ExtractionAnswers ==
    IF profile = "facts"
    THEN {ExtractionRaised, ExtractionUnparsed}
         \cup { Extracted(Fields(d, Absent, JNull, JNull)) :
                    d \in SomeDestinations \cup {JNull, JList(<<>>)} }
         \cup { Extracted(Fields(JNull, i, Absent, JStr(""))) :
                    i \in SomeInterests \cup {JList(<<>>)} }
         \cup { Extracted(Fields(JList(<<>>), JNull, b, s)) :
                    b \in {JNull, JStr(""), JStr("luxury"), JStr("budget")},
                    s \in {Absent, JStr("solo")} }
         \cup { Extracted(Fields(JList(<<"Tokyo">>), JList(<<"food">>),
                                 JStr("luxury"), JStr("group"))) }
    ELSE IF profile \in {"modes", "owners"}
    THEN {ExtractionRaised,
          Extracted(Fields(JList(<<"Tokyo">>), JList(<<"food">>),
                           JStr("luxury"), JNull))}
    ELSE {ExtractionRaised}

\* the "branches" array with one entry per kind, in the prompt's order
StandardBranches(enabled, clarify, clarification) ==
    LET kinds == <<"checklist", "budget", "itinerary", "text">>
    IN  [i \in 1..4 |->
            BranchData(kinds[i], kinds[i] \in enabled, kinds[i] \in clarify,
                       IF kinds[i] \in clarify THEN clarification ELSE "null",
                       i, TRUE)]

Answer(branches) == [raised |-> FALSE, parsed |-> TRUE, branches |-> branches]
ClassifierRaised == [raised |-> TRUE, parsed |-> FALSE, branches |-> <<>>]
ClassifierUnparsed == [raised |-> FALSE, parsed |-> FALSE, branches |-> <<>>]

ClassifierAnswers ==
    CASE profile = "pipeline" ->
            {ClassifierRaised, ClassifierUnparsed}
            \cup { Answer(StandardBranches(enabled, {}, "null")) :
                        enabled \in SUBSET BranchKinds }
            \cup { Answer(StandardBranches(enabled, clarify, c)) :
                        enabled \in {{"checklist", "text"}},
                        clarify \in {{"checklist"}, {"text"}, {"budget", "text"}},
                        c \in {"object", "string", "null", "badtype"} }
            \cup { Answer(<<BranchData("CHECKLIST", TRUE, FALSE, "null", 2, TRUE),
                            BranchData("TEXT", TRUE, FALSE, "null", 1, TRUE)>>),
                   Answer(<<BranchData("checklist", TRUE, FALSE, "null", 1, FALSE)>>),
                   Answer(<<>>) }
      [] profile = "branches" ->
            { Answer(StandardBranches(enabled, {}, "null")) :
                        enabled \in {BranchKinds, {"checklist", "text"},
                                     {"budget", "itinerary"}, {"itinerary"},
                                     {"text"}, {}} }
            \cup { Answer(<<BranchData("text", TRUE, FALSE, "null", 2, TRUE),
                            BranchData("Itinerary", TRUE, FALSE, "null", 1, TRUE)>>),
                   Answer(<<BranchData("routes", TRUE, FALSE, "null", 1, TRUE),
                            BranchData("text", FALSE, FALSE, "null", 2, TRUE)>>) }
      [] profile = "message" ->
            { Answer(StandardBranches({"budget", "itinerary"}, {}, "null")),
              Answer(<<BranchData("text", TRUE, FALSE, "null", 3, TRUE),
                       BranchData("checklist", TRUE, FALSE, "null", 2, TRUE),
                       BranchData("text", TRUE, FALSE, "null", 1, TRUE),
                       BranchData("checklist", TRUE, FALSE, "null", 4, TRUE)>>) }
      [] profile = "history" ->
            { ClassifierRaised,
              Answer(StandardBranches({"text"}, {"text"}, "object")) }
      [] profile \in {"modes", "owners"} ->
            { ClassifierRaised,
              Answer(StandardBranches({"checklist", "text"}, {}, "null")),
              Answer(StandardBranches({"text"}, {"text"}, "object")) }
      [] profile = "ledger" ->
            { Answer(StandardBranches({"text"}, {}, "null")),
              Answer(<<BranchData("checklist", TRUE, FALSE, "null", 1, TRUE),
                       BranchData("checklist", TRUE, FALSE, "null", 2, TRUE),
                       BranchData("budget", TRUE, FALSE, "null", 3, TRUE)>>) }
      [] OTHER -> {ClassifierRaised}

\* what _check_requirements_for_action would return for each kind
RequirementResults ==
    IF profile = "pipeline"
    THEN { [k \in DocumentKinds |-> [ready |-> r]] : r \in BOOLEAN }
    ELSE { [k \in DocumentKinds |-> [ready |-> TRUE]] }

Completions(kind) ==
    CASE profile = "branches" ->
            IF kind = "text" THEN {Raised, Completion(<<>>), Completion(Prose)}
            ELSE {Raised, Completion(<<SP>>), Completion(ValidChecklist),
                  Completion(TruncatedChecklist), Completion(FencedChecklist),
                  Completion(Prose)}
      [] profile = "pairs" -> {Completion(Prose)}
      [] profile = "message" ->
            IF kind = "text" THEN {Raised, Completion(<<>>), Completion(Prose)}
            ELSE {Raised, Completion(ValidChecklist), Completion(Prose)}
      [] profile = "ledger" ->
            IF kind = "text" THEN {Completion(Prose)}
            ELSE {Raised, Completion(ValidChecklist), Completion(UntitledDocument)}
      [] OTHER ->
            IF kind = "text" THEN {Raised, Completion(Prose)}
            ELSE {Raised, Completion(ValidChecklist)}

\* a Redis operation of this turn fails or times out
StoreFaults ==
    IF redis /\ profile \notin {"concurrent", "pairs", "modes", "message"}
    THEN BOOLEAN
    ELSE {FALSE}

\* ------------------------------------------------------------------------
\* The session store and the heap of session dicts
\* ------------------------------------------------------------------------
Alloc(h) == CHOOSE o \in ObjIds : h[o] = Free /\ \A q \in ObjIds : q < o => h[q] # Free

\* dicts no longer referenced are dropped
Collect(h, mem, tn) ==
    [o \in ObjIds |->
        IF \/ \E sid \in SessionIds : mem[sid] = o
           \/ \E t \in Slots : tn[t].pc # "idle" /\ tn[t].session_data = o
        THEN h[o] ELSE Free]

\* a retrieval that gives a caller who is not the owner a session of
\* their own
RetrieveOrCreateOwn(found, user_id, session_id, now) ==
    IF found = NoRecord \/ found.user_id # user_id
    THEN NewSessionData(user_id, session_id, now)
    ELSE found

\* "Retrieve or create session": session_data after the block, for the
\* record that get_session or _memory_sessions.get found (NoRecord: none)
RetrieveOrCreate(found, user_id, session_id, now) ==
    IF found = NoRecord THEN NewSessionData(user_id, session_id, now)
    ELSE found

\* a write that appends the writer's last exchange to the stored history
SetSessionMerging(store, session_id, session_data) ==
    IF store[session_id] = NoRecord \/ Len(session_data.chat_history) < 2
    THEN [store EXCEPT ![session_id] = session_data]
    ELSE [store EXCEPT ![session_id] =
            [session_data EXCEPT !.chat_history =
                store[session_id].chat_history
                    \o Suffix(session_data.chat_history, 2)]]

\* RedisService.set_session: the key takes the serialized dict
SetSession(store, session_id, session_data) ==
    [store EXCEPT ![session_id] = session_data]

\* the session a reader finds under the id, or NoRecord
StoredSession(sid) ==
    IF redis THEN redisStore[sid]
    ELSE IF memorySessions[sid] = NoObj THEN NoRecord
    ELSE heap[memorySessions[sid]]

IdleTurn ==
    [ pc |-> "idle", session_id |-> Null, user_id |-> Null,
      message |-> NoMessage, context_location |-> Absent,
      session_data |-> NoObj,
      loaded |-> NoRecord,  \* the dict of the session when the turn got it
      before |-> NewSessionData(Null, Null, 0).persistent_context,
      extracted |-> EmptyExtraction,
      decisions |-> <<>>, branches |-> <<>>,
      trigger |-> DetectExecutionTrigger(NoMessage),
      requirements |-> [k \in DocumentKinds |-> [ready |-> FALSE]],
      requirements_status |-> <<>>,
      tasks |-> <<>>, results |-> <<>>, done |-> {},
      store_faults |-> {},  \* store operations of the turn that failed
      caught |-> {},        \* stages that handled an exception of their own
      raised |-> "none",    \* where the exception that reached the except
                            \* branch of process_message came from
      response |-> NoResponse ]

NoReply == [op |-> "none", session_id |-> Null, user_id |-> Null, result |-> "none"]
NoProbe == [kind |-> "none", text |-> <<>>, result |-> Failure("none")]

OpsBound ==
    CASE profile = "history" -> MaxHistoryOps
      [] profile = "facts" -> MaxFactOps
      [] profile = "concurrent" -> MaxConcurrentOps
      [] profile = "ledger" -> MaxLedgerOps
      [] profile = "pairs" -> MaxPairOps
      [] profile = "modes" -> MaxModeOps
      [] profile = "owners" -> MaxOwnerOps
      [] OTHER -> MaxOps

Quiet == \A t \in Slots : turn[t].pc = "idle"

InitWith(p) ==
    /\ profile = p
    /\ redis \in BOOLEAN
    /\ redisStore = [sid \in SessionIds |-> NoRecord]
    /\ memorySessions = [sid \in SessionIds |-> NoObj]
    /\ heap = [o \in ObjIds |-> Free]
    /\ turn = [t \in Slots |-> IdleTurn]
    /\ clock = 0
    /\ appended = [sid \in SessionIds |-> <<>>]
    /\ reply = NoReply
    /\ probe = NoProbe

Init == InitWith("pipeline")

\* ------------------------------------------------------------------------
\* process_message, step by step
\* ------------------------------------------------------------------------
\* an exception that no handler turns into a response
FailUnhandled(tn, where) ==
    [tn EXCEPT !.pc = "done", !.raised = where]

\* the except branch of process_message
Fail(tn, where) ==
    [tn EXCEPT !.pc = "done", !.raised = where, !.response = ErrorResponse]

\* "Retrieve or create session" and "Update last activity timestamp"
RetrieveSession(t) ==
    /\ turn[t].pc = "idle"
    /\ clock < OpsBound
    /\ \E sid \in SessionIds, uid \in TurnUsers, message \in Messages,
          loc \in ContextLocations,
          readFault \in StoreFaults, writeFault \in StoreFaults,
          rereadFault \in StoreFaults :
        LET now == clock + 1
            o == IF ~redis /\ memorySessions[sid] # NoObj
                 THEN memorySessions[sid] ELSE Alloc(heap)
            found == IF redis THEN ~readFault /\ redisStore[sid] # NoRecord
                     ELSE memorySessions[sid] # NoObj
            created == ~found /\ (redis => ~writeFault)
            session_data ==
                RetrieveOrCreate(IF ~found THEN NoRecord
                                 ELSE IF redis THEN redisStore[sid] ELSE heap[o],
                                 uid, sid, now)
            loaded == found \/ (created /\ (redis => ~rereadFault))
            faults == (IF redis /\ readFault THEN {"get"} ELSE {})
                      \cup (IF redis /\ ~found /\ writeFault THEN {"create"} ELSE {})
                      \cup (IF redis /\ created /\ rereadFault THEN {"reread"} ELSE {})
            args == [IdleTurn EXCEPT !.session_id = sid, !.user_id = uid,
                                     !.message = message,
                                     !.context_location = loc,
                                     !.store_faults = faults]
        IN  /\ clock' = now
            /\ redisStore' = IF redis /\ created
                             THEN SetSession(redisStore, sid, session_data)
                             ELSE redisStore
            /\ memorySessions' = IF ~redis
                                 THEN [memorySessions EXCEPT ![sid] = o]
                                 ELSE memorySessions
            /\ appended' = IF created THEN [appended EXCEPT ![sid] = <<>>]
                           ELSE appended
            /\ heap' = IF loaded
                       THEN [heap EXCEPT ![o] =
                                [session_data EXCEPT !.last_activity = now]]
                       ELSE heap
            /\ turn' = [turn EXCEPT ![t] =
                          IF loaded
                          THEN [args EXCEPT !.pc = "extract", !.session_data = o,
                                            !.loaded =
                                                [session_data EXCEPT
                                                    !.last_activity = now]]
                          ELSE Fail(args, IF created THEN "retrieve" ELSE "create")]
            /\ reply' = NoReply
    /\ UNCHANGED <<profile, redis, probe>>

\* _extract_context_from_message and "Update persistent context"
ExtractContext(t) ==
    /\ turn[t].pc = "extract"
    /\ \E answer \in ExtractionAnswers :
        LET o == turn[t].session_data
            extracted == ExtractContextFromMessage(answer)
        IN  /\ heap' = [heap EXCEPT ![o].persistent_context =
                          MergeContext(@, extracted, turn[t].context_location)]
            /\ turn' = [turn EXCEPT ![t].pc = "classify",
                                    ![t].before = heap[o].persistent_context,
                                    ![t].extracted = extracted,
                                    ![t].caught =
                                        IF answer.raised
                                        THEN @ \cup {"extraction"} ELSE @]
    /\ UNCHANGED <<profile, redis, redisStore, memorySessions, clock, appended,
                   reply, probe>>

Pending == Failure("pending")

\* phases 1 to 3, and phase 4 up to the creation of the branch tasks
ClassifyAndLaunch(t) ==
    /\ turn[t].pc = "classify"
    /\ \E answer \in ClassifierAnswers, requirements \in RequirementResults :
        LET decisions == ClassifyIntentAndDecideBranches(answer)
            trigger == DetectExecutionTrigger(turn[t].message)
            checked == CheckRequirements(decisions,
                                         Ascending(AppActionBranches(decisions)),
                                         trigger, requirements, <<>>)
            tasks == BranchTasks(checked.branches)
            seen == [turn[t] EXCEPT !.decisions = decisions,
                                    !.caught =
                                        IF ClassifierFellBack(answer)
                                        THEN @ \cup {"classification"} ELSE @,
                                    !.branches = checked.branches,
                                    !.trigger = trigger,
                                    !.requirements = requirements,
                                    !.requirements_status =
                                        checked.requirements_status]
        IN  turn' = [turn EXCEPT ![t] =
                IF checked.raised THEN Fail(seen, "requirements")
                ELSE IF CollectClarifications(checked.branches) # <<>>
                THEN [seen EXCEPT !.pc = "done",
                                  !.response =
                                      ClarificationResponse(checked.branches)]
                ELSE [seen EXCEPT !.pc = "gather", !.tasks = tasks,
                                  !.results = [i \in 1..Len(tasks) |-> Pending]]]
    /\ UNCHANGED <<profile, redis, redisStore, memorySessions, heap, clock,
                   appended, reply, probe>>

\* one task of asyncio.gather runs to its end
BranchCompletes(t) ==
    /\ turn[t].pc = "gather"
    /\ \E i \in (1..Len(turn[t].tasks)) \ turn[t].done :
       \E completion \in Completions(turn[t].tasks[i]) :
        turn' = [turn EXCEPT
                    ![t].results[i] = ExecuteBranch(turn[t].tasks[i], completion),
                    ![t].done = @ \cup {i},
                    ![t].caught = IF completion = Raised
                                  THEN @ \cup {"branch"} ELSE @]
    /\ UNCHANGED <<profile, redis, redisStore, memorySessions, heap, clock,
                   appended, reply, probe>>

\* gather returns: phase 5, the session update and "Save session"
AggregateAndSave(t) ==
    /\ turn[t].pc = "gather"
    /\ turn[t].done = 1..Len(turn[t].tasks)
    /\ \E writeFault \in StoreFaults :
        LET o == turn[t].session_data
            sid == turn[t].session_id
            aggregated == AggregateResults(turn[t].results)
            updated == UpdateSession(heap[o], aggregated, turn[t].message, clock)
            saved == ~(redis /\ writeFault)
        IN  /\ heap' = [heap EXCEPT ![o] = updated]
            /\ redisStore' = IF redis /\ saved
                             THEN SetSession(redisStore, sid, updated)
                             ELSE redisStore
            /\ memorySessions' = IF ~redis
                                 THEN [memorySessions EXCEPT ![sid] = o]
                                 ELSE memorySessions
            /\ appended' = IF saved
                           THEN [appended EXCEPT ![sid] =
                                   @ \o <<UserMessage(turn[t].message, clock),
                                          AssistantMessage(aggregated.message, clock)>>]
                           ELSE appended
            /\ turn' = [turn EXCEPT ![t] =
                          IF saved
                          THEN [@ EXCEPT !.pc = "done",
                                         !.response = CompleteResponse(aggregated)]
                          ELSE Fail([@ EXCEPT !.store_faults = @ \cup {"save"}],
                                    "save")]
    /\ UNCHANGED <<profile, redis, clock, reply, probe>>

\* the ChatResponse reaches the caller; the locals are gone
EndTurn(t) ==
    /\ turn[t].pc = "done"
    /\ turn' = [turn EXCEPT ![t] = IdleTurn]
    /\ heap' = Collect(heap, memorySessions, turn')
    /\ UNCHANGED <<profile, redis, redisStore, memorySessions, clock, appended,
                   reply, probe>>

\* ------------------------------------------------------------------------
\* Session lifecycle
\* ------------------------------------------------------------------------
\* create_session called on its own (POST /api/session/create, the tests)
CreateSession ==
    /\ Quiet
    /\ clock < OpsBound
    /\ \E sid \in SessionIds, uid \in Users, writeFault \in StoreFaults :
        LET now == clock + 1
            o == Alloc(heap)
            stored == ~(redis /\ writeFault)
        IN  /\ clock' = now
            /\ redisStore' = IF redis /\ stored
                             THEN SetSession(redisStore, sid,
                                             NewSessionData(uid, sid, now))
                             ELSE redisStore
            /\ memorySessions' = IF ~redis
                                 THEN [memorySessions EXCEPT ![sid] = o]
                                 ELSE memorySessions
            /\ heap' = IF ~redis
                       THEN Collect([heap EXCEPT ![o] = NewSessionData(uid, sid, now)],
                                    memorySessions', turn)
                       ELSE heap
            /\ appended' = IF stored THEN [appended EXCEPT ![sid] = <<>>]
                           ELSE appended
            /\ reply' = [op |-> "create", session_id |-> sid, user_id |-> uid,
                         result |-> IF stored THEN "created" ELSE "error"]
    /\ UNCHANGED <<profile, redis, turn, probe>>

\* a deletion that does not look at the owner
DeleteResultForAnyone(session_data, user_id, deleteFault) ==
    IF session_data = NoRecord THEN "not found"
    ELSE IF deleteFault THEN "error"
    ELSE "deleted"

\* how delete_session ends: the ValueError it raises, the error of the
\* store's delete, or the deletion
DeleteResult(session_data, user_id, deleteFault) ==
    IF session_data = NoRecord THEN "not found"
    ELSE IF session_data.user_id # user_id THEN "unauthorized"
    ELSE IF deleteFault THEN "error"
    ELSE "deleted"

\* delete_session
DeleteRequest ==
    /\ \E sid \in SessionIds, uid \in Users, readFault \in StoreFaults,
          writeFault \in StoreFaults :
        LET session_data == IF redis /\ readFault THEN NoRecord
                            ELSE StoredSession(sid)
            result == DeleteResult(session_data, uid, redis /\ writeFault)
        IN  /\ reply' = [op |-> "delete", session_id |-> sid, user_id |-> uid,
                         result |-> result]
            /\ redisStore' = IF redis /\ result = "deleted"
                             THEN [redisStore EXCEPT ![sid] = NoRecord]
                             ELSE redisStore
            /\ memorySessions' = IF ~redis /\ result = "deleted"
                                 THEN [memorySessions EXCEPT ![sid] = NoObj]
                                 ELSE memorySessions
            /\ heap' = Collect(heap, memorySessions', turn)
    /\ UNCHANGED <<profile, redis, turn, clock, appended, probe>>

\* delete_session while no turn is in flight
DeleteSession == Quiet /\ DeleteRequest

\* the key's TTL (settings.session_ttl) runs out
ExpireSession ==
    /\ Quiet
    /\ redis
    /\ \E sid \in SessionIds :
        /\ redisStore[sid] # NoRecord
        /\ redisStore' = [redisStore EXCEPT ![sid] = NoRecord]
    /\ UNCHANGED <<profile, redis, memorySessions, heap, turn, clock, appended,
                   reply, probe>>

\* ------------------------------------------------------------------------
\* Specification: one request at a time
\* ------------------------------------------------------------------------
TurnStep(t) ==
    \/ RetrieveSession(t)
    \/ ExtractContext(t)
    \/ ClassifyAndLaunch(t)
    \/ BranchCompletes(t)
    \/ AggregateAndSave(t)
    \/ EndTurn(t)

Next ==
    \/ TurnStep(1)
    \/ CreateSession
    \/ DeleteSession
    \/ ExpireSession

Spec == Init /\ [][Next]_vars

SpecBranches == InitWith("branches") /\ [][Next]_vars
SpecHistory == InitWith("history") /\ [][Next]_vars
SpecFacts == InitWith("facts") /\ [][Next]_vars
SpecMessage == InitWith("message") /\ [][Next]_vars
SpecLedger == InitWith("ledger") /\ [][Next]_vars
SpecModes == InitWith("modes") /\ [][Next]_vars
SpecOwners == InitWith("owners") /\ [][Next]_vars

\* ------------------------------------------------------------------------
\* Specification: two requests of /api/chat in flight on the event loop
\* ------------------------------------------------------------------------
NextConcurrent ==
    \/ TurnStep(1)
    \/ TurnStep(2)

SpecConcurrent == InitWith("concurrent") /\ [][NextConcurrent]_vars
SpecPairs == InitWith("pairs") /\ [][NextConcurrent]_vars

\* ------------------------------------------------------------------------
\* Specification: DELETE /api/session/{id} arrives while a turn is in flight
\* ------------------------------------------------------------------------
NextDelete ==
    \/ TurnStep(1)
    \/ DeleteRequest

SpecDelete == InitWith("delete") /\ [][NextDelete]_vars

\* ------------------------------------------------------------------------
\* Specification: a document branch applied to one completion text
\* ------------------------------------------------------------------------
ArrayDocument == <<LB, QT, "a", QT, CL, SP, LK, "1", CM, SP, "2", RK, RB>>
NestedDocument ==
    <<LB, QT, "a", QT, CL, LB, QT, "b", QT, CL, "1", RB, CM,
      QT, "c", QT, CL, LK, "1", RK, RB>>
Documents == {ArrayDocument, NestedDocument, ValidChecklist}

Prefixes(text) == {SubSeq(text, 1, n) : n \in 1..Len(text)}

CompletionTexts ==
    LET cut == UNION {Prefixes(d) : d \in Documents}
    IN  cut \cup {<<FENCE, JSONTAG, SP>> \o text : text \in Prefixes(ArrayDocument)}
            \cup {<<"Here", SP>> \o d \o <<SP, "ok">> : d \in Documents}

NotRun == Failure("none")

InitRepair ==
    /\ profile = "repair"
    /\ redis = FALSE
    /\ redisStore = [sid \in SessionIds |-> NoRecord]
    /\ memorySessions = [sid \in SessionIds |-> NoObj]
    /\ heap = [o \in ObjIds |-> Free]
    /\ turn = [t \in Slots |-> IdleTurn]
    /\ clock = 0
    /\ appended = [sid \in SessionIds |-> <<>>]
    /\ reply = NoReply
    /\ probe \in [kind : DocumentKinds, text : CompletionTexts, result : {NotRun}]

\* the branch runs on the completion text
RunDocumentBranch ==
    /\ probe.kind \in DocumentKinds
    /\ probe.result = NotRun
    /\ probe' = [probe EXCEPT !.result =
                    DocumentBranch(probe.kind, Completion(probe.text))]
    /\ UNCHANGED <<profile, redis, redisStore, memorySessions, heap, turn, clock,
                   appended, reply>>

NextRepair == RunDocumentBranch

SpecRepair == InitRepair /\ [][NextRepair]_vars

\* ------------------------------------------------------------------------
\* Specification: the requirement extraction applied to one completion
\* ------------------------------------------------------------------------
\* the compulsory fields the prompts of _extract_*_info ask for
CompulsoryFields(kind) ==
    CASE kind = "checklist" ->
            {"desired_location", "current_location", "number_of_days", "number_of_pax"}
      [] kind = "itinerary" -> {"desired_locations", "interests", "number_of_days"}
      [] kind = "budget" -> {"total_budget", "desired_locations", "current_location"}

\* the object under the action key: compulsory is the set of compulsory
\* fields that are not null (for interests: that hold two items or more)
ActionInfo(compulsory, ready) == [compulsory |-> compulsory, ready |-> ready]

\* the "Fallback structure" and the structure of the except branch
FallbackInfo(action_type) == [key |-> action_type, info |-> ActionInfo({}, FALSE)]

\* _execute_info_extraction.  answer: [raised, parsed, result]: the call
\* raised, or the text held a JSON object (parsed), which is result
ExecuteInfoExtraction(action_type, answer) ==
    IF answer.raised \/ ~answer.parsed THEN FallbackInfo(action_type)
    ELSE answer.result

\* _check_requirements_for_action
CheckRequirementsForAction(action_type, answer) ==
    IF action_type \in AppActionNames
    THEN ExecuteInfoExtraction(Lower(action_type), answer)
    ELSE [key |-> "error", info |-> ActionInfo({}, FALSE)]

\* action_data = extraction_result.get(action_key, {}) and
\* is_ready = action_data.get("ready", False)
IsReady(extraction_result, action_key) ==
    IF extraction_result.key = action_key THEN extraction_result.info.ready
    ELSE FALSE

InfoAnswers(kind) ==
    {[raised |-> TRUE, parsed |-> FALSE, result |-> FallbackInfo(kind)],
     [raised |-> FALSE, parsed |-> FALSE, result |-> FallbackInfo(kind)]}
    \cup {[raised |-> FALSE, parsed |-> TRUE,
           result |-> [key |-> key, info |-> ActionInfo(filled, ready)]] :
              key \in {kind, "result"},
              filled \in SUBSET CompulsoryFields(kind),
              ready \in BOOLEAN}

Upper(kind) ==
    CASE kind = "checklist" -> "CHECKLIST"
      [] kind = "itinerary" -> "ITINERARY"
      [] kind = "budget" -> "BUDGET"

InitReadiness ==
    /\ profile = "readiness"
    /\ redis = FALSE
    /\ redisStore = [sid \in SessionIds |-> NoRecord]
    /\ memorySessions = [sid \in SessionIds |-> NoObj]
    /\ heap = [o \in ObjIds |-> Free]
    /\ turn = [t \in Slots |-> IdleTurn]
    /\ clock = 0
    /\ appended = [sid \in SessionIds |-> <<>>]
    /\ reply = NoReply
    /\ \E kind \in DocumentKinds : \E answer \in InfoAnswers(kind) :
          probe = [kind |-> kind, answer |-> answer, run |-> FALSE,
                   extraction_result |-> FallbackInfo(kind), is_ready |-> FALSE]

\* one pass of the body of the loop over app_action_branches, up to is_ready
RunRequirementCheck ==
    /\ ~probe.run
    /\ LET extraction_result ==
               CheckRequirementsForAction(Upper(probe.kind), probe.answer)
       IN  probe' = [probe EXCEPT !.run = TRUE,
                                  !.extraction_result = extraction_result,
                                  !.is_ready = IsReady(extraction_result, probe.kind)]
    /\ UNCHANGED <<profile, redis, redisStore, memorySessions, heap, turn, clock,
                   appended, reply>>

NextReadiness == RunRequirementCheck

SpecReadiness == InitReadiness /\ [][NextReadiness]_vars

\* ------------------------------------------------------------------------
\* Specification: _ensure_ids applied to one parsed document payload
\* ------------------------------------------------------------------------
\* An id is the list of the parts that '-' joins: <<"item", "1", "2">> is
\* "item-1-2".  NoId: the sub-item has no "id" key; NullId: "id": null.
NoId == <<>>
NullId == <<"null">>

\* str() of an index
Str(n) ==
    CASE n = 1 -> "1" [] n = 2 -> "2" [] n = 3 -> "3" [] n = 4 -> "4"
      [] OTHER -> "n"

\* the prefix of the ids of categories and days, of items and activities
GroupPrefix(data_type) ==
    CASE data_type = "checklist" -> "category"
      [] data_type = "budget" -> "budget-category"
      [] data_type = "itinerary" -> "day"
MemberPrefix(data_type) ==
    CASE data_type = "checklist" -> "item"
      [] data_type = "itinerary" -> "activity"
      [] OTHER -> "none"

\* a parsed payload: groups are its categories or days, each with its
\* members (items, activities; none for a budget category)
SubItem(id, members) == [id |-> id, members |-> members]

\* _ensure_ids
EnsureIds(data, data_type) ==
    [g \in 1..Len(data) |->
        SubItem(IF data[g].id = NoId
                THEN <<GroupPrefix(data_type), Str(g)>> ELSE data[g].id,
                IF data_type = "budget" THEN data[g].members
                ELSE [m \in 1..Len(data[g].members) |->
                        SubItem(IF data[g].members[m].id = NoId
                                THEN <<MemberPrefix(data_type), Str(g), Str(m)>>
                                ELSE data[g].members[m].id,
                                <<>>)])]

\* the ids a completion may carry: none, or the one the index scheme
\* gives to the first group, to its first member; for members also null
GroupIds(data_type) == {NoId, <<GroupPrefix(data_type), "1">>}
MemberIds(data_type) == {NoId, NullId, <<MemberPrefix(data_type), "1", "1">>}

MemberLists(data_type) ==
    IF data_type = "budget" THEN {<<>>}
    ELSE UNION {[1..n -> {SubItem(id, <<>>) : id \in MemberIds(data_type)}] :
                    n \in 0..MaxMembers}

Payloads(data_type) ==
    UNION {[1..n -> {SubItem(id, members) :
                        id \in GroupIds(data_type),
                        members \in MemberLists(data_type)}] :
              n \in 0..MaxGroups}

InitIds ==
    /\ profile = "ids"
    /\ redis = FALSE
    /\ redisStore = [sid \in SessionIds |-> NoRecord]
    /\ memorySessions = [sid \in SessionIds |-> NoObj]
    /\ heap = [o \in ObjIds |-> Free]
    /\ turn = [t \in Slots |-> IdleTurn]
    /\ clock = 0
    /\ appended = [sid \in SessionIds |-> <<>>]
    /\ reply = NoReply
    /\ \E data_type \in DocumentKinds : \E data \in Payloads(data_type) :
          probe = [kind |-> data_type, data |-> data, run |-> FALSE]

\* json.loads succeeded in a document branch: "Ensure all items have IDs"
RunEnsureIds ==
    /\ ~probe.run
    /\ probe' = [probe EXCEPT !.run = TRUE,
                              !.data = EnsureIds(probe.data, probe.kind)]
    /\ UNCHANGED <<profile, redis, redisStore, memorySessions, heap, turn, clock,
                   appended, reply>>

NextIds == RunEnsureIds

SpecIds == InitIds /\ [][NextIds]_vars

\* ------------------------------------------------------------------------
\* Specification: _detect_execution_trigger applied to one message
\* ------------------------------------------------------------------------
TriggerWords ==
    {"Create", "the", "checklist", "Go", "ahead", "plan", "my", "days",
     "budget", "show", "me"}

TriggerMessages ==
    {TextMessage(ws) : ws \in UNION {[1..n -> TriggerWords] : n \in 0..MaxWords}}
    \cup {JsonMessage(a, as, ws) :
            a \in {Absent, JNull, JStr(""), JStr("checklist"), JStr("budget")},
            as \in {Absent, JNull, JList(<<>>), JStr("itinerary"),
                    JList(<<"budget", "itinerary">>)},
            ws \in {<<LB, RB>>, <<"Go", "ahead">>, <<"Create", "the", "checklist">>}}
    \cup {BrokenJsonMessage(ws) :
            ws \in {<<LB>>, <<LB, "Go", "ahead">>, <<LB, "show", "me", "the", "budget">>}}

InitTrigger ==
    /\ profile = "trigger"
    /\ redis = FALSE
    /\ redisStore = [sid \in SessionIds |-> NoRecord]
    /\ memorySessions = [sid \in SessionIds |-> NoObj]
    /\ heap = [o \in ObjIds |-> Free]
    /\ turn = [t \in Slots |-> IdleTurn]
    /\ clock = 0
    /\ appended = [sid \in SessionIds |-> <<>>]
    /\ reply = NoReply
    /\ \E message \in TriggerMessages :
          probe = [message |-> message, run |-> FALSE,
                   result |-> DetectExecutionTrigger(NoMessage)]

\* "Check for explicit execution trigger" in process_message
RunDetectExecutionTrigger ==
    /\ ~probe.run
    /\ probe' = [probe EXCEPT !.run = TRUE,
                              !.result = DetectExecutionTrigger(probe.message)]
    /\ UNCHANGED <<profile, redis, redisStore, memorySessions, heap, turn, clock,
                   appended, reply>>

NextTrigger == RunDetectExecutionTrigger

SpecTrigger == InitTrigger /\ [][NextTrigger]_vars

\* ------------------------------------------------------------------------
\* Properties of one turn (Spec)
\* ------------------------------------------------------------------------
Launched(t) == IF turn[t].pc \in {"gather", "done"} THEN Range(turn[t].tasks) ELSE {}

\* C1: in a turn whose message holds no execution trigger, no document
\* branch (checklist, budget, itinerary) is launched; at most the text
\* branch runs.
C1_NoTriggerNoDocument ==
    \A t \in Slots :
        ~turn[t].trigger.execute => Launched(t) \cap DocumentKinds = {}

\* C2: when a decision of the classifier needs clarification and carries a
\* well-formed clarification, the turn launches no branch task and returns
\* exactly the clarifications collected from the decisions, in their order.
C2_ClarificationShortCircuit ==
    \A t \in Slots :
        /\ turn[t].pc \notin {"idle", "extract", "classify"}
        /\ CollectClarifications(turn[t].decisions) # <<>>
        => /\ turn[t].pc = "done"
           /\ turn[t].tasks = <<>> /\ turn[t].results = <<>>
           /\ turn[t].response.phase = "clarification_needed"
           /\ turn[t].response.clarifications =
                  CollectClarifications(turn[t].decisions)

\* a turn returned two clarifications
C2_Witness ==
    \E t \in Slots :
        /\ turn[t].pc = "done"
        /\ Len(CollectClarifications(turn[t].decisions)) = 2
        /\ Len(turn[t].response.clarifications) = 2
        /\ turn[t].response.clarifications[1] # turn[t].response.clarifications[2]

\* C3: every response of process_message (clarification, complete, error)
\* has its clarifications empty or its app_actions empty.
C3_NeverBoth ==
    \A t \in Slots :
        turn[t].pc = "done" =>
            \/ turn[t].response.clarifications = <<>>
            \/ turn[t].response.app_actions = <<>>

\* a complete response that carries a document
C3_Witness ==
    \E t \in Slots :
        /\ turn[t].pc = "done"
        /\ turn[t].response.app_actions # <<>>
        /\ turn[t].response.phase = "complete"

\* C4: a document branch is never launched in a turn in which its
\* requirement set is not ready.
C4_NotReadyNotLaunched ==
    \A t \in Slots :
        \A k \in Launched(t) \cap DocumentKinds : turn[t].requirements[k].ready

\* C10: process_message never raises: every turn ends with a ChatResponse.
\* An exception that reaches the handler of process_message (session load
\* or creation, requirement checking, session save) gives the apology
\* message with empty app_actions and clarifications and error = true; an
\* exception handled inside the fact extraction, the classification or a
\* branch does not by itself make the response an error.
C10_EscapedExceptionApology ==
    \A t \in Slots :
        /\ turn[t].pc = "done" => turn[t].response # NoResponse
        /\ turn[t].raised # "none" =>
              /\ turn[t].pc = "done"
              /\ turn[t].response = ErrorResponse
        /\ turn[t].pc = "done" /\ turn[t].raised = "none" =>
              ~turn[t].response.error

\* a turn in which the classifier raised and the save failed
C10_Witness ==
    \E t \in Slots :
        /\ turn[t].pc = "done"
        /\ turn[t].raised = "save"
        /\ "classification" \in turn[t].caught
        /\ turn[t].response.message = <<ApologyMessage>>
        /\ turn[t].response.error

\* C10 as stated: any exception raised inside the turn, the ones of fact
\* extraction, classification and branch execution included, gives the
\* apology response with error = true.
C10_AnyExceptionApology ==
    \A t \in Slots :
        turn[t].pc = "done" /\ (turn[t].raised # "none" \/ turn[t].caught # {})
        => turn[t].response = ErrorResponse

\* ------------------------------------------------------------------------
\* Properties of the branch fan-out (SpecBranches)
\* ------------------------------------------------------------------------
Survivors(t) == {i \in 1..Len(turn[t].results) : turn[t].results[i].success}

Carried(response, result) ==
    IF result.type = "text" THEN result.data \in Range(response.message)
    ELSE [type |-> result.type, data |-> result.data] \in Range(response.app_actions)

Chronological(h) ==
    \A i, j \in 1..Len(h) : i < j => h[i].timestamp <= h[j].timestamp

\* C5: the stored chat history of a session holds at most 10 messages, in
\* chronological order, and they are the most recent of all the messages
\* appended to the session since create_session made it.
C5_HistoryIsRecentSuffix ==
    \A sid \in SessionIds :
        StoredSession(sid) # NoRecord =>
            LET h == StoredSession(sid).chat_history
            IN  /\ Len(h) <= HistoryLimit
                /\ h = Suffix(appended[sid], HistoryLimit)
                /\ Chronological(h)

\* six turns were appended and the two oldest messages are gone
C5_Witness ==
    \E sid \in SessionIds :
        /\ StoredSession(sid) # NoRecord
        /\ Len(appended[sid]) = HistoryLimit + 2
        /\ Len(StoredSession(sid).chat_history) = HistoryLimit
        /\ StoredSession(sid).chat_history[1] = appended[sid][3]

\* C6: every turn that returns a response other than the apology, a turn
\* that returns clarifications included, has appended the user message and
\* the returned assistant message to the history and persisted the session.
C6_EveryTurnAppends ==
    \A t \in Slots :
        turn[t].pc = "done" /\ ~turn[t].response.error =>
            LET session_data == StoredSession(turn[t].session_id)
                h == session_data.chat_history
            IN  /\ session_data # NoRecord
                /\ Len(h) >= 2
                /\ h[Len(h) - 1].role = "user"
                /\ h[Len(h) - 1].content = <<turn[t].message.words>>
                /\ h[Len(h)].role = "assistant"
                /\ h[Len(h)].content = turn[t].response.message

\* ------------------------------------------------------------------------
\* Properties of the fact merge (SpecFacts)
\* ------------------------------------------------------------------------
IsPrefix(s, t) == Len(s) <= Len(t) /\ SubSeq(t, 1, Len(s)) = s

Unchanged(before, after, extracted) ==
    ~Truthy(extracted) => after = before

\* C7: in the merge of a turn, a null, absent or empty extracted value
\* leaves the stored value as it was, a non-empty extracted scalar
\* (budget_level, travel_style, current_location) becomes the stored value,
\* and no stored fact is erased: a stored list keeps its entries, a stored
\* scalar is never reset to None.
C7_MergeMonotonic ==
    \A t \in Slots :
        turn[t].pc = "classify" =>
            LET before == turn[t].before
                after == heap[turn[t].session_data].persistent_context
                e == turn[t].extracted
                loc == turn[t].context_location
            IN  /\ Unchanged(before.destinations_mentioned,
                             after.destinations_mentioned, e.destinations)
                /\ Unchanged(before.interests, after.interests, e.interests)
                /\ Unchanged(before.budget_level, after.budget_level, e.budget_level)
                /\ Unchanged(before.travel_style, after.travel_style, e.travel_style)
                /\ Unchanged(before.current_location, after.current_location, loc)
                /\ Truthy(e.budget_level) => after.budget_level = e.budget_level.v[1]
                /\ Truthy(e.travel_style) => after.travel_style = e.travel_style.v[1]
                /\ Truthy(loc) => after.current_location = loc.v[1]
                /\ IsPrefix(before.destinations_mentioned, after.destinations_mentioned)
                /\ IsPrefix(before.interests, after.interests)
                /\ before.budget_level # Null => after.budget_level # Null
                /\ before.travel_style # Null => after.travel_style # Null
                /\ before.current_location # Null => after.current_location # Null

\* stored facts meet a turn that extracts a new budget level, no
\* destinations and an empty location
C7_Witness ==
    \E t \in Slots :
        /\ turn[t].pc = "classify"
        /\ turn[t].before.destinations_mentioned # <<>>
        /\ turn[t].before.budget_level = "luxury"
        /\ turn[t].before.current_location = "Osaka"
        /\ turn[t].extracted.budget_level = JStr("budget")
        /\ turn[t].extracted.destinations = JList(<<>>)
        /\ turn[t].context_location = JStr("")
        /\ heap[turn[t].session_data].persistent_context.budget_level = "budget"
        /\ heap[turn[t].session_data].persistent_context.current_location = "Osaka"

\* ------------------------------------------------------------------------
\* Properties of the JSON repair (SpecRepair)
\* ------------------------------------------------------------------------
\* a document cut before its last closing bracket or its last two
TruncatedDocuments ==
    {[text |-> SubSeq(d, 1, Len(d) - k), whole |-> d] : d \in Documents, k \in 1..2}

\* C8: on a completion that is a JSON document truncated before its closing
\* brackets, as {"a": [1, 2 is, the branch appends the missing ] and },
\* parses the result and returns success with the repaired payload.
C8_RepairsTruncated ==
    \A d \in TruncatedDocuments :
        probe.text = d.text /\ probe.result # NotRun =>
            /\ probe.result.success
            /\ probe.result.data = NoBlanks(d.whole)

C12_StoreFailureTolerated ==
    \A t \in Slots :
        turn[t].pc = "done" /\ turn[t].store_faults # {} =>
            /\ ~turn[t].response.error
            /\ turn[t].response.message # <<ApologyMessage>>

\* ------------------------------------------------------------------------
\* Properties of the classifier (Spec)
\* ------------------------------------------------------------------------
DecisionsFor(decisions, kind) ==
    {i \in 1..Len(decisions) : decisions[i].branch = kind}

\* C13: when the classifier's completion call failed, or its text held no
\* JSON object or one whose entries could not be turned into decisions,
\* the decisions of the turn are the fallback: text enabled with
\* confidence 1.0, and checklist, budget and itinerary disabled.
C13_ClassifierFallback ==
    \A t \in Slots :
        "classification" \in turn[t].caught =>
            LET decisions == turn[t].decisions
            IN  /\ Len(decisions) = 4
                /\ \A k \in BranchKinds : Cardinality(DecisionsFor(decisions, k)) = 1
                /\ \A i \in 1..4 :
                      IF decisions[i].branch = "text"
                      THEN decisions[i].enabled /\ decisions[i].confidence = "1.0"
                      ELSE ~decisions[i].enabled
                /\ turn[t].pc = "gather" => turn[t].tasks = <<"text">>

\* the classifier fell back and the text branch alone was launched
C13_Witness ==
    \E t \in Slots :
        /\ turn[t].pc = "gather"
        /\ "classification" \in turn[t].caught
        /\ turn[t].decisions = FallbackDecisions
        /\ turn[t].tasks = <<"text">>

\* ------------------------------------------------------------------------
\* Properties of the requirement extraction (SpecReadiness)
\* ------------------------------------------------------------------------
\* the rule of the kind: every compulsory field has a value
ReadinessRule(kind, compulsory) == CompulsoryFields(kind) \subseteq compulsory

\* C14: the ready flag that gates a document branch is the readiness rule
\* of its kind applied to the compulsory values of the requirement set,
\* whatever else the completion says.
C14_ReadyIsComputed ==
    probe.run /\ probe.extraction_result.key = probe.kind =>
        probe.is_ready =
            ReadinessRule(probe.kind, probe.extraction_result.info.compulsory)

\* ------------------------------------------------------------------------
\* Properties of overlapping turns (SpecConcurrent)
\* ------------------------------------------------------------------------
Said(chat_history, message) ==
    \E i \in 1..Len(chat_history) :
        chat_history[i].role = "user" /\ chat_history[i].content = <<message.words>>

\* C15: with Redis, when turn t writes the session back after turn u wrote
\* it, and t had loaded the session before u's write, the record in the
\* store is t's own dict: the history t loaded plus t's exchange, without
\* the message of u.
C15_LastWriteWins ==
    [][ \A t \in Slots : \A u \in Slots \ {t} :
            LET sid == turn[t].session_id
                o == turn[t].session_data
            IN  /\ redis
                /\ AggregateAndSave(t)
                /\ turn[u].pc = "done"
                /\ turn[u].session_id = sid
                /\ turn[u].message # turn[t].message
                /\ Said(redisStore[sid].chat_history, turn[u].message)
                /\ ~Said(heap[o].chat_history, turn[u].message)
                => /\ redisStore'[sid] = heap'[o]
                   /\ redisStore'[sid].chat_history =
                        Suffix(heap[o].chat_history
                                 \o <<UserMessage(turn[t].message, clock),
                                      AssistantMessage(turn'[t].response.message,
                                                       clock)>>,
                               HistoryLimit)
                   /\ ~Said(redisStore'[sid].chat_history, turn[u].message) ]_vars

C15_Witness ==
    /\ redis
    /\ \A t \in Slots : turn[t].pc = "done" /\ turn[t].response.phase = "complete"
    /\ turn[1].session_id = turn[2].session_id
    /\ turn[1].message # turn[2].message
    /\ LET stored == redisStore[turn[1].session_id]
       IN  /\ stored # NoRecord
           /\ Len(stored.chat_history) = 2
           /\ Said(stored.chat_history, turn[1].message)
           /\ ~Said(stored.chat_history, turn[2].message)

Checked(t, kind) ==
    {i \in 1..Len(turn[t].requirements_status) :
        turn[t].requirements_status[i].kind = kind}

\* C17: in a turn that went past the requirement check, every document
\* kind that the classifier enabled has exactly one requirement extraction
\* recorded in requirements_status.
C17_RequirementsExtracted ==
    \A t \in Slots :
        turn[t].pc \in {"gather", "done"} /\ turn[t].decisions # <<>> =>
            \A kind \in DocumentKinds :
                (\E i \in 1..Len(turn[t].decisions) :
                    /\ turn[t].decisions[i].branch = kind
                    /\ turn[t].decisions[i].enabled)
                => Cardinality(Checked(t, kind)) = 1

\* ------------------------------------------------------------------------
\* Properties of the branch executor (SpecBranches)
\* ------------------------------------------------------------------------
\* the known kinds with an enabled decision when _execute_branches is called
EnabledKinds(t) ==
    {turn[t].branches[i].branch : i \in {j \in 1..Len(turn[t].branches) :
                                            turn[t].branches[j].enabled}}
        \cap BranchKinds

\* C18 (as the code has it): the text branch is launched exactly when its
\* decision is enabled, with or without document branches beside it, or
\* when no decision of a known kind is enabled.
C18_TextWhenEnabledOrNothingElse ==
    \A t \in Slots :
        turn[t].pc = "gather" =>
            ("text" \in Range(turn[t].tasks)
                <=> ("text" \in EnabledKinds(t) \/ EnabledKinds(t) = {}))

\* the text branch and two document branches in one gather
C18_Witness ==
    \E t \in Slots :
        /\ turn[t].pc = "gather"
        /\ "text" \in EnabledKinds(t)
        /\ {"text", "checklist", "budget"} \subseteq Range(turn[t].tasks)

\* C18 (as stated): the text branch never runs alongside a checklist,
\* budget or itinerary branch.
C18_TextOnlyAlone ==
    \A t \in Slots :
        turn[t].pc = "gather" /\ "text" \in Range(turn[t].tasks) =>
            Range(turn[t].tasks) \cap DocumentKinds = {}

\* C19: every call of _execute_branches launches at least one task, and
\* when no decision of a known kind is enabled the one task is the text
\* branch.
C19_NeverEmpty ==
    \A t \in Slots :
        turn[t].pc = "gather" =>
            /\ turn[t].tasks # <<>>
            /\ EnabledKinds(t) = {} => turn[t].tasks = <<"text">>

\* the only enabled decision names a kind the executor does not know
C19_Witness ==
    \E t \in Slots :
        /\ turn[t].pc = "gather"
        /\ \E i \in 1..Len(turn[t].branches) :
              turn[t].branches[i].enabled /\ turn[t].branches[i].branch \notin BranchKinds
        /\ EnabledKinds(t) = {}
        /\ turn[t].tasks = <<"text">>

\* ------------------------------------------------------------------------
\* Properties of the intent classifier (Spec)
\* ------------------------------------------------------------------------
\* C20: the decisions that _classify_intent_and_decide_branches returned in
\* a turn hold exactly one BranchDecision for each of checklist, budget,
\* itinerary and text, whatever the completion was.
C20_OneDecisionPerKind ==
    \A t \in Slots :
        turn[t].pc = "gather" =>
            /\ Len(turn[t].decisions) = Cardinality(BranchKinds)
            /\ \A kind \in BranchKinds :
                  Cardinality(DecisionsFor(turn[t].decisions, kind)) = 1

\* ------------------------------------------------------------------------
\* Properties of _ensure_ids (SpecIds)
\* ------------------------------------------------------------------------
\* the sub-items of a payload, by position: <<g>> a group, <<g, m>> a member
Positions(data) ==
    {<<g>> : g \in 1..Len(data)}
    \cup UNION {{<<g, m>> : m \in 1..Len(data[g].members)} : g \in 1..Len(data)}

IdAt(data, pos) ==
    IF Len(pos) = 1 THEN data[pos[1]].id ELSE data[pos[1]].members[pos[2]].id

\* C21: after _ensure_ids, every sub-item of the payload has an id and no
\* two sub-items of the payload have the same id.
C21_IdsPresentAndUnique ==
    probe.run =>
        /\ \A pos \in Positions(probe.data) :
              IdAt(probe.data, pos) \notin {NoId, NullId}
        /\ \A pos \in Positions(probe.data) : \A other \in Positions(probe.data) :
              pos # other => IdAt(probe.data, pos) # IdAt(probe.data, other)

\* ------------------------------------------------------------------------
\* Properties of the capped fact lists (SpecFacts)
\* ------------------------------------------------------------------------
Mentioned(extracted) ==
    IF Truthy(extracted) /\ extracted.t = "list"
    THEN Range(extracted.v) \ {""} ELSE {}

\* C22: after the merge of a turn, every destination and every interest
\* that the turn's extraction mentions is in the stored list, whatever the
\* cap had to drop.
C22_NewestKept ==
    \A t \in Slots :
        turn[t].pc = "classify" =>
            LET after == heap[turn[t].session_data].persistent_context
            IN  /\ Mentioned(turn[t].extracted.destinations)
                      \subseteq Range(after.destinations_mentioned)
                /\ Mentioned(turn[t].extracted.interests)
                      \subseteq Range(after.interests)

\* ------------------------------------------------------------------------
\* Properties of _detect_execution_trigger (SpecTrigger)
\* ------------------------------------------------------------------------
\* the kinds a JSON value names
Names(j) ==
    CASE j.t = "str" -> {j.v[1]} \ {""}
      [] j.t = "list" -> Range(j.v)
      [] OTHER -> {}

\* the first phrase of the list that the lower-cased message contains
FirstTrigger(message) ==
    LET hits == {i \in 1..Len(Triggers) :
                    Contains(LowerAll(message.words), Triggers[i])}
    IN  IF hits = {} THEN <<>>
        ELSE Triggers[CHOOSE i \in hits : \A j \in hits : i <= j]

\* C23: a JSON object with app_action or app_actions gives execute = true
\* with exactly the kinds it names; otherwise the first trigger phrase in
\* the message gives execute = true with the kind of its keyword, or null;
\* otherwise execute = false with no kinds.
C23_TwoPathsInOrder ==
    probe.run =>
        LET message == probe.message
            result == probe.result
        IN  IF /\ message.json = "object"
               /\ (message.app_action # Absent \/ message.app_actions # Absent)
            THEN /\ result.execute
                 /\ result.actions.t = "list"
                 /\ Range(result.actions.v) =
                        Names(message.app_action) \cup Names(message.app_actions)
            ELSE IF FirstTrigger(message) # <<>>
            THEN /\ result.execute
                 /\ result.actions = TriggerActions(FirstTrigger(message))
            ELSE /\ ~result.execute
                 /\ result.actions = JNull

\* ------------------------------------------------------------------------
\* Properties of the aggregated message (SpecMessage)
\* ------------------------------------------------------------------------
\* the payloads of the successful text results, in the order of the results
TextPayloads(results) ==
    LET IsText(result) == result.success /\ result.type = "text"
        texts == SelectSeq(results, IsText)
    IN  [i \in 1..Len(texts) |-> texts[i].data]

\* the acknowledgments of the kinds with a successful result
Acknowledgments(results) ==
    LET Produced(entry) ==
            \E i \in 1..Len(results) :
                results[i].success /\ results[i].type = entry.kind
        all == << [kind |-> "checklist", sentence |-> ChecklistAck],
                  [kind |-> "budget", sentence |-> BudgetAck],
                  [kind |-> "itinerary", sentence |-> ItineraryAck] >>
        acks == SelectSeq(all, Produced)
    IN  [i \in 1..Len(acks) |-> acks[i].sentence]

\* C24: when some branch of the turn succeeded, the parts of the message
\* are the payloads of the successful text branches, in the order of the
\* tasks (their priority order), followed by one acknowledgment for each
\* document kind produced; failed results add nothing.
C24_TextThenAcknowledgments ==
    \A t \in Slots :
        /\ turn[t].pc = "done"
        /\ turn[t].response.phase = "complete"
        /\ Survivors(t) # {}
        => turn[t].response.message =
              TextPayloads(turn[t].results) \o Acknowledgments(turn[t].results)

\* two text branches around two checklist branches, one checklist failed
C24_Witness ==
    \E t \in Slots :
        /\ turn[t].pc = "done"
        /\ turn[t].tasks = <<"text", "checklist", "text", "checklist">>
        /\ turn[t].results[1].success /\ turn[t].results[3].success
        /\ turn[t].results[1].data # turn[t].results[3].data
        /\ turn[t].results[2].success /\ ~turn[t].results[4].success
        /\ turn[t].response.message =
              <<turn[t].results[1].data, turn[t].results[3].data, ChecklistAck>>

\* ------------------------------------------------------------------------
\* Properties of the created-items ledger (SpecLedger)
\* ------------------------------------------------------------------------
\* the ledger entries of the turn's successful results of one kind
Created(t, kind) ==
    LET OfKind(result) == result.success /\ result.type = kind
        made == SelectSeq(turn[t].results, OfKind)
    IN  [i \in 1..Len(made) |->
            LedgerEntry([type |-> kind, data |-> made[i].data], clock)]

\* C25: when a turn is complete, the stored ledger of each kind is what it
\* was at the start of the turn plus one entry for each successful document
\* of that kind, cut to its last 3 entries, in creation order.
C25_LedgerKeepsLastThree ==
    \A t \in Slots :
        turn[t].pc = "done" /\ turn[t].response.phase = "complete" =>
            \A kind \in DocumentKinds :
                LET key == LedgerKey(kind)
                    old == turn[t].before.created_items[key]
                    now == StoredSession(turn[t].session_id)
                                .persistent_context.created_items[key]
                IN  /\ Len(now) <= LedgerCap
                    /\ now = Suffix(old \o Created(t, kind), LedgerCap)
                    /\ \A i, j \in 1..Len(now) :
                          i < j => now[i].created_at <= now[j].created_at

\* two checklists stored, two more created: the oldest one is dropped
C25_Witness ==
    \E t \in Slots :
        /\ turn[t].pc = "done" /\ turn[t].response.phase = "complete"
        /\ Len(turn[t].before.created_items.checklists) = 2
        /\ Len(Created(t, "checklist")) = 2
        /\ LET now == StoredSession(turn[t].session_id)
                            .persistent_context.created_items.checklists
           IN  /\ Len(now) = 3
               /\ now[1] = turn[t].before.created_items.checklists[2]
               /\ now[1].created_at < now[2].created_at

\* ------------------------------------------------------------------------
\* Properties of the history under overlapping turns (SpecPairs)
\* ------------------------------------------------------------------------
Alternates(chat_history) ==
    /\ Len(chat_history) % 2 = 0
    /\ \A i \in 1..Len(chat_history) :
          chat_history[i].role = IF i % 2 = 1 THEN "user" ELSE "assistant"

\* C26: the chat history of every session dict, stored or held by a turn
\* in flight, has even length and alternates user, assistant from a user
\* message on.
C26_HistoryAlternates ==
    /\ \A sid \in SessionIds :
          StoredSession(sid) # NoRecord => Alternates(StoredSession(sid).chat_history)
    /\ \A o \in ObjIds : heap[o] # Free => Alternates(heap[o].chat_history)

\* six exchanges appended, the stored history cut to ten messages, two
\* turns not yet returned
C26_Witness ==
    /\ \A t \in Slots : turn[t].pc = "done"
    /\ \E sid \in SessionIds :
          /\ StoredSession(sid) # NoRecord
          /\ Len(StoredSession(sid).chat_history) = HistoryLimit
          /\ Len(appended[sid]) > HistoryLimit
          /\ StoredSession(sid).chat_history[1] # appended[sid][1]

\* ------------------------------------------------------------------------
\* Properties of the session record across a turn (SpecHistory)
\* ------------------------------------------------------------------------
\* C27: no step of process_message replaces an existing session: the
\* session is still there afterwards, with its user_id, its created_at and
\* a history that has not shrunk, also when the read of the session failed.
C27_NeverReplaced ==
    [][ \A sid \in SessionIds :
            /\ StoredSession(sid) # NoRecord
            /\ \E t \in Slots : TurnStep(t)
            => /\ StoredSession(sid)' # NoRecord
               /\ StoredSession(sid)'.user_id = StoredSession(sid).user_id
               /\ StoredSession(sid)'.created_at = StoredSession(sid).created_at
               /\ Len(StoredSession(sid)'.chat_history)
                     >= Len(StoredSession(sid).chat_history) ]_vars

\* ------------------------------------------------------------------------
\* Properties of a deletion during a turn (SpecDelete)
\* ------------------------------------------------------------------------
\* C28: while a successful delete_session is the last request that arrived
\* (no create_session and no turn has started since), the session is
\* absent: a turn that was in flight does not bring it back.
C28_DeletedStaysAbsent ==
    reply.op = "delete" /\ reply.result = "deleted" =>
        StoredSession(reply.session_id) = NoRecord

\* ------------------------------------------------------------------------
\* Properties of the two session stores (SpecModes)
\* ------------------------------------------------------------------------
\* what a reader of the session compares
Observed(session_data) ==
    [facts |-> [session_data.persistent_context EXCEPT
                    !.created_items = [k \in DOMAIN @ |-> <<>>]],
     history |-> session_data.chat_history,
     ledger |-> session_data.persistent_context.created_items]

\* the session dict of a finished turn after "Update persistent context",
\* and after the lines up to "Save session"
Merged(t) ==
    [turn[t].loaded EXCEPT
        !.persistent_context =
            MergeContext(@, turn[t].extracted, turn[t].context_location)]
Updated(t) ==
    UpdateSession(Merged(t), AggregateResults(turn[t].results),
                  turn[t].message, clock)

\* the session read back after the turn: in memory the turn works on the
\* stored dict itself; with Redis the record changes when the turn saves
MemoryReadBack(t) ==
    IF turn[t].response.phase = "complete" THEN Updated(t) ELSE Merged(t)
RedisReadBack(t) ==
    IF turn[t].response.phase = "complete" THEN Updated(t) ELSE turn[t].loaded

Finished(t) ==
    /\ turn[t].pc = "done"
    /\ turn[t].loaded # NoRecord
    /\ turn[t].store_faults = {}

\* the two operators give what the model's store holds in their mode
ReadBackMatches ==
    \A t \in Slots :
        Finished(t) =>
            Observed(StoredSession(turn[t].session_id)) =
                Observed(IF redis THEN RedisReadBack(t) ELSE MemoryReadBack(t))

\* C29: the session read back after a turn (complete, clarification or
\* error) is the one the other store mode gives for the same turn: same
\* facts, same history, same ledger.
C29_ModesAgree ==
    \A t \in Slots :
        Finished(t) =>
            Observed(StoredSession(turn[t].session_id)) =
                Observed(IF redis THEN MemoryReadBack(t) ELSE RedisReadBack(t))

\* ------------------------------------------------------------------------
\* Properties of a turn by a caller who is not the owner (SpecOwners)
\* ------------------------------------------------------------------------
\* the response of a finished turn, from what the turn computed
ResponseOf(t) ==
    IF turn[t].raised # "none" THEN ErrorResponse
    ELSE IF CollectClarifications(turn[t].branches) # <<>>
    THEN ClarificationResponse(turn[t].branches)
    ELSE CompleteResponse(AggregateResults(turn[t].results))

====
